---- MODULE Spec2Model ----
(***************************************************************************)
(* The voice-conversation turn controller of the chat component            *)
(* (src/web/components/VoiceChat.tsx) as a state machine.                  *)
(*                                                                         *)
(* One action is one task of the browser's event loop: a user event        *)
(* handler, or the continuation of an async function after an await, run   *)
(* up to its next await together with the React effects its state updates  *)
(* trigger.  Functions of the component are closures of the render that    *)
(* created them: a handler called from the UI reads the current state, a   *)
(* continuation reads the state of the render in which it was created.     *)
(* Texts are sequences of tokens; " " is a whitespace token.               *)
(***************************************************************************)
EXTENDS Integers, Sequences, FiniteSets, TLC

\* ---- bounds ----
MaxOps == 2        \* user operations that start something (turn, recording, toggle, ...)

\* files.length: one file, or several
FileCounts == {1, 2}

\* ---- texts ----
Texts == { <<>>, <<" ">>, <<"a">>, <<" ", "a">> }     \* typed / transcribed texts
Contents == { <<>>, <<"r">> }                         \* completion contents (<<>>: none)

RECURSIVE TrimLeft(_)
TrimLeft(t) == IF t # <<>> /\ Head(t) = " " THEN TrimLeft(Tail(t)) ELSE t

RECURSIVE TrimRight(_)
TrimRight(t) ==
    IF t # <<>> /\ t[Len(t)] = " " THEN TrimRight(SubSeq(t, 1, Len(t) - 1)) ELSE t

\* String.prototype.trim
Trim(t) == TrimRight(TrimLeft(t))

Digit(n) == IF n = 1 THEN "1" ELSE IF n = 2 THEN "2" ELSE IF n = 3 THEN "3" ELSE "many"

\* the welcome message's text for n attached files
WelcomeText(n) ==
    IF n = 1 THEN <<"Hey", "a document">> ELSE <<"Hey", Digit(n), "documents">>

SorryText == <<"I'm sorry, I couldn't generate a response.">>
ApologyText == <<"I apologize, but I encountered an error while processing your request.">>

MicError == "Failed to access microphone"
TranscribeError == "Failed to transcribe audio. Please try again."
NoError == "null"

UserMessage(t) == [type |-> "user", text |-> t]
AssistantMessage(t) == [type |-> "assistant", text |-> t]
WelcomeMessage(n) == AssistantMessage(WelcomeText(n))

\* ---- ids ----
OpIds == 1..MaxOps
SpeechIds == 1..(MaxOps + 1)

VARIABLES
    files,              \* files.length (the files prop)
    messages,           \* the transcript (the messages prop, parent state)
    isLoading,          \* useState: a turn is in progress
    isSpeaking,         \* useState
    isRecording,        \* useState
    recordingError,     \* useState
    autoSpeak,          \* useState
    mediaRecorderRef,   \* the recorder the ref points to (0: null)
    streams,            \* microphone streams whose tracks are live
    turns,              \* per started operation: the async invocation it runs
    opCount,            \* operations started so far
    speech,             \* per generateSpeech call: its position and abort signal
    abortControllerRef, \* the controller the ref points to (0: null)
    audio,              \* the <audio> element
    urls,               \* object URLs created and not revoked
    autoSpoken,         \* history: auto-speak requests issued for the last Message
    audioChunksRef,     \* the chunk buffer the ref points to: the recorders whose
                        \* data it holds
    request,            \* the request the middleware handled last
    response,           \* what the middleware answered
    event               \* the task that ran last

vars == << files, messages, isLoading, isSpeaking, isRecording, recordingError,
           autoSpeak, mediaRecorderRef, streams, turns, opCount, speech,
           abortControllerRef, audio, urls, autoSpoken, audioChunksRef, request,
           response, event >>

turnVars == << isLoading, isRecording, recordingError, mediaRecorderRef, streams,
               turns, opCount >>
speechVars == << isSpeaking, speech, abortControllerRef, audio, urls >>
routeVars == << request, response >>

NoReq == <<>>
\* snap*: the state of the render whose closures the invocation runs;
\* startMessages: the transcript when stopRecording was called; req: the
\* completion request in flight; fromIdle: handleSendMessage was called with
\* nothing else in progress
NoTurn == [kind |-> "none", pc |-> "none", snapFiles |-> 0, snapMessages |-> <<>>,
           snapLoading |-> FALSE, startMessages |-> <<>>, req |-> NoReq,
           fromIdle |-> FALSE]
\* a spoken turn that ends by handing its clip to the recorder's stop handler again
DoneTurnRetrying(k, p) ==
    [NoTurn EXCEPT !.kind = k, !.pc = IF k = "voice" THEN "stopping" ELSE p]

DoneTurn(k, p) == [NoTurn EXCEPT !.kind = k, !.pc = p]

NoSpeechReq == [pc |-> "none", text |-> <<>>, aborted |-> FALSE]

Event(op, id, ok, text) == [op |-> op, id |-> id, ok |-> ok, text |-> text]

Last(s) == s[Len(s)]

\* ---- the middleware ----

MaxPath == 3

\* a pathname is a sequence of pieces of text, read as their concatenation; no
\* piece is the beginning of another
Segments == {"/", "dashboard", "onboard", "api", "x"}

\* the pathnames of requests: they begin with "/"
Pathnames ==
    UNION {{p \in [1..n -> Segments] : p[1] = "/"} : n \in 1..MaxPath}

\* String.prototype.startsWith
StartsWith(s, prefix) ==
    /\ Len(prefix) <= Len(s)
    /\ \A k \in 1..Len(prefix) : s[k] = prefix[k]

NextResponseNext == [kind |-> "next", to |-> <<>>]
NextResponseRedirect(to) == [kind |-> "redirect", to |-> to]

PublicRoutes == {<< "/" >>}

\* a middleware that protects the dashboard only
ProtectedRoutesDashboardOnly == {<< "/", "dashboard" >>}

ProtectedRoutes == {<< "/", "dashboard" >>, << "/", "onboard" >>}

\* config.matcher: the middleware runs for every pathname that does not begin,
\* after its first "/", with api, _next/static, _next/image or favicon.ico
Matcher(pathname) ==
    ~\E x \in {"api", "_next/static", "_next/image", "favicon.ico"} :
        StartsWith(pathname, << "/", x >>)

\* the function handed to auth(): the tests in the order of the code
Middleware(isLoggedIn, pathname) ==
    IF pathname \in PublicRoutes
    THEN NextResponseNext
    ELSE IF isLoggedIn /\ pathname = << "/" >>
    THEN NextResponseRedirect(<< "/", "dashboard" >>)
    ELSE IF ~isLoggedIn /\ \E route \in ProtectedRoutes : StartsWith(pathname, route)
    THEN NextResponseRedirect(<< "/" >>)
    ELSE NextResponseNext

\* no request handled yet
NoRequest == [isLoggedIn |-> FALSE, pathname |-> <<>>]
NoResponse == [kind |-> "none", to |-> <<>>]

Init ==
    /\ files \in FileCounts
    /\ messages = << WelcomeMessage(files) >>
    /\ isLoading = FALSE
    /\ isSpeaking = TRUE
    /\ isRecording = FALSE
    /\ recordingError = NoError
    /\ autoSpeak = TRUE
    /\ mediaRecorderRef = 0
    /\ streams = {}
    /\ turns = [i \in OpIds |-> NoTurn]
    /\ opCount = 0
    /\ speech = [i \in SpeechIds |->
                    IF i = 1 THEN [pc |-> "fetch", text |-> WelcomeText(files),
                                   aborted |-> FALSE]
                    ELSE NoSpeechReq]
    /\ abortControllerRef = 1
    /\ audio = [src |-> 0, state |-> "paused", onended |-> 0]
    /\ urls = {}
    /\ autoSpoken = 1
    /\ audioChunksRef = {}
    /\ request = NoRequest
    /\ response = NoResponse
    /\ event = Event("mount", 0, TRUE, <<>>)


\* ---- SpeechPlayer: stopSpeaking and the synchronous part of generateSpeech ----

\* stopSpeaking: audioRef.current.pause(); currentTime = 0
StopSpeakingAudioClearingSource(a) == [a EXCEPT !.state = "paused", !.src = 0]

StopSpeakingAudio(a) == [a EXCEPT !.state = "paused"]

\* a stopSpeaking that aborts nothing
StopSpeakingAbortNothing(sp, ref) == sp

\* stopSpeaking: abortControllerRef.current.abort(); the signal matters only to a
\* request whose fetch or body read is still pending
StopSpeakingAbort(sp, ref) ==
    IF ref # 0 /\ sp[ref].pc \in {"fetch", "blob"}
    THEN [sp EXCEPT ![ref].aborted = TRUE]
    ELSE sp

NextSpeechId == 1 + Cardinality({i \in SpeechIds : speech[i].pc # "none"})

\* generateSpeech(text) up to its first await (the fetch)
GenerateSpeech(text) ==
    /\ speech' = [StopSpeakingAbort(speech, abortControllerRef) EXCEPT
                     ![NextSpeechId] = [pc |-> "fetch", text |-> text, aborted |-> FALSE]]
    /\ abortControllerRef' = NextSpeechId
    /\ audio' = StopSpeakingAudio(audio)
    /\ isSpeaking' = TRUE
    /\ urls' = urls

\* the effect on [messages, autoSpeak], run with the values of the new render
\* the auto-speak requests issued for the last Message of msgs, after the effect
\* ran for (msgs, auto); prior: those issued for it before
AutoSpoken(prior, msgs, auto) ==
    IF auto /\ msgs # <<>> /\ Last(msgs).type = "assistant" THEN prior + 1 ELSE prior

AutoSpeakEffectIgnoringToggle(msgs, auto) ==
    IF msgs # <<>> /\ Last(msgs).type = "assistant"
    THEN GenerateSpeech(Last(msgs).text) ELSE UNCHANGED speechVars

AutoSpeakEffect(msgs, auto) ==
    IF auto /\ msgs # <<>> /\ Last(msgs).type = "assistant"
    THEN GenerateSpeech(Last(msgs).text)
    ELSE UNCHANGED speechVars

\* ---- TurnController ----

\* the guard without its isLoading test
\* a guard that does not test the text
SendRejectedOnlyWhenLoading(text, loading) == loading

\* a guard that tests the text without trimming it
SendRejectedUntrimmed(text, loading) == text = <<>> \/ loading

SendRejectedIgnoringLoading(text, loading) == Trim(text) = <<>>

\* handleSendMessage's guard: if (!text.trim() || isLoading) return
SendRejected(text, loading) == Trim(text) = <<>> \/ loading

\* the system directive; it names the attached files
SystemContext(f) == << "You are Wiz AI", Digit(f) >>

\* messages.map((msg) => ({ role: msg.type, content: msg.text }))
ToDialogue(msgs) ==
    [i \in 1..Len(msgs) |-> [role |-> msgs[i].type, content |-> msgs[i].text]]

\* the messages array getAIResponse sends: system directive, history, new utterance
GenRequest(f, history, utterance) ==
    << [role |-> "system", content |-> SystemContext(f)] >>
        \o ToDialogue(history)
        \o << [role |-> "user", content |-> utterance] >>

\* getAIResponse without the fallback of its catch
GetAIResponseWithoutFallback(ok, content) ==
    IF content = <<>> THEN SorryText ELSE content

\* what getAIResponse returns for the completion call's outcome
GetAIResponse(ok, content) ==
    IF ok THEN (IF content = <<>> THEN SorryText ELSE content) ELSE ApologyText

\* no turn in progress, no recording, no acquisition pending
Idle ==
    /\ ~isLoading
    /\ ~isRecording
    /\ \A j \in OpIds : turns[j].pc \in {"none", "done", "failed"}

\* handleSendMessage(text) of the render with state (cFiles, cMessages), past
\* its guard and up to the await of the completion call
HandleSendMessage(id, kind, text, cFiles, cMessages) ==
    /\ messages' = Append(messages, UserMessage(Trim(text)))
    /\ isLoading' = TRUE
    /\ turns' = [turns EXCEPT ![id] =
                    [NoTurn EXCEPT !.kind = kind, !.pc = "generating",
                                   !.req = GenRequest(cFiles, cMessages, text),
                                   !.fromIdle = Idle]]
    /\ AutoSpeakEffect(messages', autoSpeak)
    /\ autoSpoken' = AutoSpoken(0, messages', autoSpeak)

\* Enter key / Send button: handleSend = handleSendMessage(inputText)
SubmitText(t) ==
    IF SendRejected(t, isLoading)
    THEN /\ event' = Event("submitText", 0, FALSE, t)
         /\ UNCHANGED << files, routeVars, audioChunksRef, autoSpoken, messages, autoSpeak, turnVars, speechVars >>
    ELSE /\ opCount < MaxOps
         /\ HandleSendMessage(opCount + 1, "text", t, files, messages)
         /\ opCount' = opCount + 1
         /\ event' = Event("submitText", opCount + 1, TRUE, t)
         /\ UNCHANGED << files, routeVars, audioChunksRef, autoSpeak, isRecording, recordingError,
                         mediaRecorderRef, streams >>

\* handleSendMessage without its finally
SendFinallyMissing(loading) == loading

\* a handleSendMessage that shows no reply when the completion call failed
SendReplyUnlessFailed(msgs, reply) ==
    IF reply = ApologyText THEN msgs ELSE Append(msgs, AssistantMessage(reply))

\* setMessages((prev) => [...prev, assistantMessage])
SendReply(msgs, reply) == Append(msgs, AssistantMessage(reply))

\* the value isLoading has after handleSendMessage's finally
SendFinally(loading) == FALSE

\* the completion call of turn id returns; handleSendMessage resumes, then (voice)
\* transcribeAudio's finally and the onstop handler's last statement
GenerationDone(id, ok, content) ==
    /\ turns[id].pc = "generating"
    /\ messages' = SendReply(messages, GetAIResponse(ok, content))
    /\ isLoading' = SendFinally(isLoading)
    /\ streams' = IF turns[id].kind = "voice" THEN streams \ {id} ELSE streams
    /\ turns' = [turns EXCEPT ![id] = DoneTurn(turns[id].kind, "done")]
    /\ AutoSpeakEffect(messages', autoSpeak)
    /\ autoSpoken' = AutoSpoken(0, messages', autoSpeak)
    /\ event' = Event("generationDone", id, ok, GetAIResponse(ok, content))
    /\ UNCHANGED << files, routeVars, audioChunksRef, autoSpeak, isRecording, recordingError, mediaRecorderRef,
                    opCount >>

\* Voice button while it shows "Voice" (isRecording false): startRecording up to
\* the await of getUserMedia
StartRecording ==
    /\ ~isLoading
    /\ ~isRecording
    /\ opCount < MaxOps
    /\ turns' = [turns EXCEPT ![opCount + 1] =
                    [NoTurn EXCEPT !.kind = "voice", !.pc = "acquiring",
                                   !.snapFiles = files, !.snapMessages = messages,
                                   !.snapLoading = isLoading]]
    /\ opCount' = opCount + 1
    /\ event' = Event("startRecording", opCount + 1, TRUE, <<>>)
    /\ UNCHANGED << files, routeVars, audioChunksRef, autoSpoken, messages, autoSpeak, isLoading, isRecording,
                    recordingError, mediaRecorderRef, streams, speechVars >>

\* Voice button while disabled (isLoading): the click reaches no handler
VoiceClickDisabled ==
    /\ isLoading
    /\ event' = Event("voiceClick", 0, FALSE, <<>>)
    /\ UNCHANGED << files, routeVars, audioChunksRef, autoSpoken, messages, autoSpeak, turnVars, speechVars >>

\* a catch that only logs
StartRecordingCatchSilent(prev) == prev

\* the error message startRecording's catch sets
StartRecordingCatch(prev) == MicError

\* a startRecording that leaves the chunk buffer as it is
StartRecordingChunksKept(chunks, outcome) == chunks

\* audioChunksRef.current = [], reached once the recorder is constructed
StartRecordingChunks(chunks, outcome) ==
    IF outcome \in {"ok", "startFail"} THEN {} ELSE chunks

\* getUserMedia of invocation id settles and startRecording runs to its end.
\* denied: getUserMedia rejects; ctorFail: new MediaRecorder throws;
\* startFail: start() throws; ok: recording starts.
AcquireDone(id, outcome) ==
    /\ turns[id].pc = "acquiring"
    /\ streams' = IF outcome = "denied" THEN streams ELSE streams \cup {id}
    /\ mediaRecorderRef' = IF outcome \in {"ok", "startFail"} THEN id
                           ELSE mediaRecorderRef
    /\ isRecording' = IF outcome = "ok" THEN TRUE ELSE isRecording
    /\ recordingError' = IF outcome = "ok" THEN NoError
                         ELSE StartRecordingCatch(recordingError)
    /\ turns' = [turns EXCEPT ![id].pc = IF outcome = "ok" THEN "recording"
                                         ELSE "failed"]
    /\ audioChunksRef' = StartRecordingChunks(audioChunksRef, outcome)
    /\ event' = Event("acquireDone", id, outcome = "ok", << outcome >>)
    /\ UNCHANGED << files, routeVars, autoSpoken, messages, autoSpeak, isLoading, opCount, speechVars >>

\* Voice button while it shows "Stop" (isRecording true): stopRecording.
\* stop() on a recorder that is not recording either throws InvalidStateError,
\* before setIsRecording, or returns at once, depending on the browser.
StopRecording ==
    /\ ~isLoading
    /\ isRecording
    /\ IF mediaRecorderRef # 0 /\ turns[mediaRecorderRef].pc = "recording"
       THEN /\ turns' = [turns EXCEPT ![mediaRecorderRef].pc = "stopping",
                                      ![mediaRecorderRef].startMessages = messages]
            /\ isRecording' = FALSE
            /\ event' = Event("stopRecording", mediaRecorderRef, TRUE, <<>>)
       ELSE \E thrown \in BOOLEAN :
            /\ isRecording' = IF thrown THEN isRecording ELSE FALSE
            /\ event' = Event("stopRecording", mediaRecorderRef, FALSE,
                              << IF thrown THEN "throws" ELSE "returns" >>)
            /\ UNCHANGED turns
    /\ UNCHANGED << files, routeVars, audioChunksRef, autoSpoken, messages, autoSpeak, isLoading, recordingError,
                    mediaRecorderRef, streams, opCount, speechVars >>

\* ondataavailable of recorder id: its data (not empty) is pushed to whatever
\* buffer the ref points to when the event is handled
DataAvailable(chunks, id) == chunks \cup {id}

\* the recorder's task after stop(): the dataavailable event, then the stop
\* event, whose onstop builds the clip from the buffer as it is then (the
\* buffer after this task) and calls transcribeAudio, which runs up to the await
\* of the transcription call
RecorderStopped(id) ==
    /\ turns[id].pc = "stopping"
    /\ isLoading' = TRUE
    /\ audioChunksRef' = DataAvailable(audioChunksRef, id)
    /\ turns' = [turns EXCEPT ![id].pc = "transcribing"]
    /\ event' = Event("recorderStopped", id, TRUE, <<>>)
    /\ UNCHANGED << files, routeVars, autoSpoken, messages, autoSpeak, isRecording, recordingError,
                    mediaRecorderRef, streams, opCount, speechVars >>

\* transcribeAudio without its finally
TranscribeFinallyMissing(loading) == loading

\* the value isLoading has after transcribeAudio's finally
TranscribeFinally(loading) == FALSE

\* the error message transcribeAudio's catch sets
TranscribeCatch(prev) == TranscribeError

\* the isLoading that the handleSendMessage called by invocation id reads
SendLoadingCurrent(id) == isLoading

\* the isLoading that the handleSendMessage called by invocation id reads: the
\* one of the render in which startRecording was called
SendLoading(id) == turns[id].snapLoading

\* the transcription call of invocation id returns.  On success transcribeAudio
\* calls the handleSendMessage of the render in which startRecording was called.
TranscriptionDone(id, ok, t) ==
    /\ turns[id].pc = "transcribing"
    /\ IF ok /\ ~SendRejected(t, SendLoading(id))
       THEN /\ HandleSendMessage(id, "voice", t, turns[id].snapFiles,
                                 turns[id].snapMessages)
            /\ UNCHANGED << recordingError, streams >>
       ELSE /\ isLoading' = TranscribeFinally(isLoading)
            /\ recordingError' = IF ok THEN recordingError
                                 ELSE TranscribeCatch(recordingError)
            /\ streams' = streams \ {id}
            /\ turns' = [turns EXCEPT ![id] = DoneTurn("voice", "done")]
            /\ UNCHANGED << messages, speechVars, autoSpoken >>
    /\ event' = Event("transcriptionDone", id, ok, t)
    /\ UNCHANGED << files, routeVars, audioChunksRef, autoSpeak, isRecording, mediaRecorderRef, opCount >>

\* the files prop changes: the welcome effect replaces the transcript
FilesChange(n) ==
    /\ opCount < MaxOps
    /\ files' = n
    /\ messages' = << WelcomeMessage(n) >>
    /\ AutoSpeakEffect(messages', autoSpeak)
    /\ autoSpoken' = AutoSpoken(0, messages', autoSpeak)
    /\ opCount' = opCount + 1
    /\ event' = Event("filesChange", opCount + 1, TRUE, <<>>)
    /\ UNCHANGED << autoSpeak, isLoading, isRecording, recordingError,
                    mediaRecorderRef, streams, turns, audioChunksRef, routeVars >>

\* the auto-speak button
ToggleAutoSpeak ==
    /\ opCount < MaxOps
    /\ autoSpeak' = ~autoSpeak
    /\ AutoSpeakEffect(messages, autoSpeak')
    /\ autoSpoken' = AutoSpoken(autoSpoken, messages, autoSpeak')
    /\ opCount' = opCount + 1
    /\ event' = Event("toggleAutoSpeak", opCount + 1, TRUE, <<>>)
    /\ UNCHANGED << files, routeVars, audioChunksRef, messages, isLoading, isRecording, recordingError,
                    mediaRecorderRef, streams, turns >>

\* ---- SpeechPlayer: the rest of generateSpeech ----

DoneSpeechReq == [pc |-> "done", text |-> <<>>, aborted |-> FALSE]

\* generateSpeech's catch: log, then setIsSpeaking(false)
SpeechCatch(r) ==
    /\ isSpeaking' = FALSE
    /\ speech' = [speech EXCEPT ![r] = DoneSpeechReq]

\* the fetch of request r settles without having been aborted
SpeechFetchDone(r, outcome) ==
    /\ speech[r].pc = "fetch"
    /\ ~speech[r].aborted
    /\ IF outcome = "ok"
       THEN /\ speech' = [speech EXCEPT ![r].pc = "blob"]
            /\ UNCHANGED isSpeaking
       ELSE SpeechCatch(r)
    /\ event' = Event("speechFetchDone", r, outcome = "ok", << outcome >>)
    /\ UNCHANGED << files, routeVars, audioChunksRef, autoSpoken, messages, autoSpeak, turnVars, abortControllerRef,
                    audio, urls >>

\* the body of request r has been read (or reading failed) without an abort:
\* createObjectURL, src, onended, play()
SpeechBlobDone(r, ok) ==
    /\ speech[r].pc = "blob"
    /\ ~speech[r].aborted
    /\ IF ok
       THEN /\ urls' = urls \cup {r}
            /\ audio' = [src |-> r, state |-> "starting", onended |-> r]
            /\ speech' = [speech EXCEPT ![r].pc = "play"]
            /\ UNCHANGED isSpeaking
       ELSE /\ SpeechCatch(r)
            /\ UNCHANGED << audio, urls >>
    /\ event' = Event("speechBlobDone", r, ok, <<>>)
    /\ UNCHANGED << files, routeVars, audioChunksRef, autoSpoken, messages, autoSpeak, turnVars, abortControllerRef >>

\* an abort handled like the end of a turn
SpeechAbortedEndingTurn(r) ==
    /\ speech[r].pc \in {"fetch", "blob"}
    /\ speech[r].aborted
    /\ SpeechCatch(r)
    /\ isLoading' = FALSE
    /\ event' = Event("speechAborted", r, FALSE, <<>>)
    /\ UNCHANGED << files, routeVars, audioChunksRef, autoSpoken, messages, autoSpeak, isRecording, recordingError,
                    mediaRecorderRef, streams, turns, opCount, abortControllerRef,
                    audio, urls >>

\* the fetch or body read of an aborted request r rejects with AbortError
SpeechAborted(r) ==
    /\ speech[r].pc \in {"fetch", "blob"}
    /\ speech[r].aborted
    /\ SpeechCatch(r)
    /\ event' = Event("speechAborted", r, FALSE, <<>>)
    /\ UNCHANGED << files, routeVars, audioChunksRef, autoSpoken, messages, autoSpeak, turnVars, abortControllerRef,
                    audio, urls >>

\* the play() promise of request r settles: it resolves when playback starts,
\* rejects when playback is refused, or when pause() or a new src interrupted it
SpeechPlayDone(r, ok) ==
    /\ speech[r].pc = "play"
    /\ IF audio.src = r /\ audio.state = "starting"
       THEN IF ok
            THEN /\ audio' = [audio EXCEPT !.state = "playing"]
                 /\ speech' = [speech EXCEPT ![r] = DoneSpeechReq]
                 /\ UNCHANGED isSpeaking
            ELSE /\ audio' = [audio EXCEPT !.state = "paused"]
                 /\ SpeechCatch(r)
       ELSE /\ ~ok
            /\ SpeechCatch(r)
            /\ UNCHANGED audio
    /\ event' = Event("speechPlayDone", r, ok, <<>>)
    /\ UNCHANGED << files, routeVars, audioChunksRef, autoSpoken, messages, autoSpeak, turnVars, abortControllerRef, urls >>

\* an onended handler that does not revoke the URL
AudioEndedKeepingUrl ==
    /\ audio.state = "playing"
    /\ audio' = [audio EXCEPT !.state = "paused"]
    /\ isSpeaking' = FALSE
    /\ event' = Event("audioEnded", audio.onended, TRUE, <<>>)
    /\ UNCHANGED << files, routeVars, audioChunksRef, autoSpoken, messages, autoSpeak, turnVars, speech,
                    abortControllerRef, urls >>

\* playback reaches its end: the onended handler
AudioEnded ==
    /\ audio.state = "playing"
    /\ audio' = [audio EXCEPT !.state = "paused"]
    /\ isSpeaking' = FALSE
    /\ urls' = urls \ {audio.onended}
    /\ event' = Event("audioEnded", audio.onended, TRUE, <<>>)
    /\ UNCHANGED << files, routeVars, audioChunksRef, autoSpoken, messages, autoSpeak, turnVars, speech,
                    abortControllerRef >>

\* Stop Speaking button (enabled while isSpeaking): stopSpeaking
StopSpeaking ==
    /\ isSpeaking
    /\ audio' = StopSpeakingAudio(audio)
    /\ speech' = StopSpeakingAbort(speech, abortControllerRef)
    /\ isSpeaking' = FALSE
    /\ event' = Event("stopSpeaking", abortControllerRef, TRUE, <<>>)
    /\ UNCHANGED << files, routeVars, audioChunksRef, autoSpoken, messages, autoSpeak, turnVars, abortControllerRef, urls >>

\* Listen button of the i-th message (shown while auto-speak is off, enabled
\* while not speaking)
Listen(i) ==
    /\ ~autoSpeak
    /\ ~isSpeaking
    /\ i \in 1..Len(messages)
    /\ messages[i].type = "assistant"
    /\ opCount < MaxOps
    /\ GenerateSpeech(messages[i].text)
    /\ opCount' = opCount + 1
    /\ event' = Event("listen", opCount + 1, TRUE, messages[i].text)
    /\ UNCHANGED << files, routeVars, audioChunksRef, autoSpoken, messages, autoSpeak, isLoading, isRecording,
                    recordingError, mediaRecorderRef, streams, turns >>

\* The turn controller: the turn pipeline, the recorder, and the operations
\* that change the transcript or the auto-speak flag.  The speech player's own
\* tasks (NextSpeech) write only speechVars and no guard here reads those, so
\* they are left out of the turn controller's specification.
NextTurn ==
    \/ \E t \in Texts : SubmitText(t)
    \/ \E id \in OpIds, c \in Contents : GenerationDone(id, TRUE, c)
    \/ \E id \in OpIds : GenerationDone(id, FALSE, <<>>)
    \/ StartRecording
    \/ VoiceClickDisabled
    \/ \E id \in OpIds, o \in {"ok", "denied", "ctorFail", "startFail"} :
          AcquireDone(id, o)
    \/ StopRecording
    \/ \E id \in OpIds : RecorderStopped(id)
    \/ \E id \in OpIds, t \in Texts : TranscriptionDone(id, TRUE, t)
    \/ \E id \in OpIds : TranscriptionDone(id, FALSE, <<>>)
    \/ \E n \in FileCounts : FilesChange(n)
    \/ ToggleAutoSpeak

\* The speech player's tasks
NextSpeech ==
    \/ \E r \in SpeechIds, o \in {"ok", "notOk", "error"} : SpeechFetchDone(r, o)
    \/ \E r \in SpeechIds, ok \in BOOLEAN : SpeechBlobDone(r, ok)
    \/ \E r \in SpeechIds : SpeechAborted(r)
    \/ \E r \in SpeechIds, ok \in BOOLEAN : SpeechPlayDone(r, ok)
    \/ AudioEnded
    \/ StopSpeaking
    \/ \E i \in 1..(2 * MaxOps + 1) : Listen(i)

Spec == Init /\ [][NextTurn]_vars

\* a request arrives: the middleware answers it if the matcher selects its
\* pathname; any other request goes through to its route
Request(isLoggedIn, pathname) ==
    /\ request' = [isLoggedIn |-> isLoggedIn, pathname |-> pathname]
    /\ response' = IF Matcher(pathname) THEN Middleware(isLoggedIn, pathname)
                   ELSE NextResponseNext
    /\ event' = Event("request", 0, Matcher(pathname), <<>>)
    /\ UNCHANGED << files, messages, autoSpeak, autoSpoken, audioChunksRef,
                    turnVars, speechVars >>

NextRoute == \E l \in BOOLEAN, p \in Pathnames : Request(l, p)

\* The middleware answering requests
RouteSpec == Init /\ [][NextRoute]_vars

\* The speech player with the operations that issue speak requests: typed turns,
\* the auto-speak toggle, a change of the file list and the Listen button.
NextPlayer ==
    \/ NextSpeech
    \/ \E t \in Texts : SubmitText(t)
    \/ \E id \in OpIds, c \in Contents : GenerationDone(id, TRUE, c)
    \/ \E id \in OpIds : GenerationDone(id, FALSE, <<>>)
    \/ \E n \in FileCounts : FilesChange(n)
    \/ ToggleAutoSpeak

SpeechSpec == Init /\ [][NextPlayer]_vars

\* a continuation of an invocation: the recorder's stop event, or the return
\* of its transcription or generation call
Continue ==
    \E id \in OpIds :
        \/ RecorderStopped(id)
        \/ \E ok \in BOOLEAN, t \in Texts : TranscriptionDone(id, ok, t)
        \/ \E ok \in BOOLEAN, c \in Contents : GenerationDone(id, ok, c)

\* Every remote call returns and the recorder's stop event is delivered: while
\* continuations are pending, one of them eventually runs (there are finitely
\* many, and a pending continuation stays pending until it runs).
CallsReturn == WF_vars(Continue)

\* The turn controller with every call returning
LiveSpec == Spec /\ CallsReturn


\* ---- properties of the turn controller ----

\* invocations with a transcription or a completion call outstanding
InFlight == {i \in OpIds : turns[i].pc \in {"transcribing", "generating"}}

\* every variable but the record of the last task
allButEvent == << files, messages, autoSpeak, turnVars, speechVars,
                 audioChunksRef >>

\* C1: in every reachable state at most one transcription-or-generation
\* pipeline is outstanding.
C1_AtMostOnePipeline == Cardinality(InFlight) <= 1

\* C2: submitText invoked while isLoading is true appends no Message, issues no
\* generation request and changes no state.
C2_SubmitTextNoOpWhileLoading ==
    [][(event'.op = "submitText" /\ isLoading) => UNCHANGED allButEvent]_vars

C2_Witness ==
    /\ event.op = "submitText"
    /\ ~event.ok
    /\ Trim(event.text) # <<>>
    /\ isLoading
    /\ InFlight # {}

\* C3: while TurnState is not Idle a Voice click changes nothing and no
\* RecordingSession comes into being: no stream is acquired, no recorder starts
\* recording and isRecording does not become true, also when the microphone
\* acquisition of an earlier startRecording completes.
C3_NoSessionWhileNotIdle ==
    [][isLoading =>
         /\ (event'.op = "voiceClick" => UNCHANGED allButEvent)
         /\ streams' \subseteq streams
         /\ (isRecording' => isRecording)
         /\ \A i \in OpIds : turns'[i].pc = "recording" => turns[i].pc = "recording"
      ]_vars

\* the transcript at the moment the turn that the step starts or continues
\* began: at submitText for a typed turn, at stopRecording for a spoken one
TurnStartTranscript(i) ==
    IF event'.op = "submitText" THEN messages ELSE turns[i].startMessages

\* C4: the request a turn sends is the system directive, then exactly the
\* transcript as it stood when the turn started, then the new utterance as the
\* last entry.
C4_HistoryIsTranscriptAtTurnStart ==
    [][\A i \in OpIds :
         (turns[i].pc # "generating" /\ turns'[i].pc = "generating") =>
            /\ SubSeq(turns'[i].req, 2, Len(turns'[i].req) - 1)
                  = ToDialogue(TurnStartTranscript(i))
            /\ Last(turns'[i].req) = [role |-> "user", content |-> event'.text]
      ]_vars

\* C5: every change to the transcript extends the previous transcript at its end.
C5_TranscriptAppendOnly ==
    [][/\ Len(messages') >= Len(messages)
       /\ SubSeq(messages', 1, Len(messages)) = messages]_vars

\* C6: a recording whose transcription succeeds with text t, the transcript and
\* the file list being those of its startRecording call, does what submitText(t)
\* does from Idle with that transcript: the same append, the same generation
\* request, no speak request and the same TurnState; its completion appends the
\* reply and returns to Idle.
C6_VoiceEqualsText ==
    [][/\ ( /\ event'.op = "transcriptionDone"
            /\ event'.ok
            /\ messages = turns[event'.id].snapMessages
            /\ files = turns[event'.id].snapFiles ) =>
            /\ UNCHANGED speechVars
            /\ IF SendRejected(event'.text, FALSE)
               THEN /\ messages' = messages
                    /\ ~isLoading'
                    /\ turns'[event'.id].pc = "done"
               ELSE /\ messages' = Append(messages, UserMessage(Trim(event'.text)))
                    /\ isLoading'
                    /\ turns'[event'.id].pc = "generating"
                    /\ turns'[event'.id].req = GenRequest(files, messages, event'.text)
       /\ (event'.op = "generationDone" /\ turns[event'.id].kind = "voice") =>
            /\ messages' = Append(messages, AssistantMessage(event'.text))
            /\ ~isLoading'
      ]_vars

C6_Witness ==
    /\ event.op = "transcriptionDone"
    /\ event.ok
    /\ turns[event.id].pc = "generating"
    /\ turns[event.id].req = GenRequest(files, SubSeq(messages, 1, Len(messages) - 1),
                                        event.text)
    /\ Last(messages) = UserMessage(Trim(event.text))
    /\ event.text # Trim(event.text)

\* C7: when the generation call fails, exactly one assistant Message, the
\* fallback apology, is appended at the end of the transcript and TurnState
\* returns to Idle.
C7_GenerationFailureFallback ==
    [][(event'.op = "generationDone" /\ ~event'.ok) =>
         /\ messages' = Append(messages, AssistantMessage(ApologyText))
         /\ ~isLoading'
      ]_vars

C7_Witness ==
    /\ event.op = "generationDone"
    /\ ~event.ok
    /\ Len(messages) >= 3
    /\ messages[Len(messages) - 1].type = "user"
    /\ Last(messages) = AssistantMessage(ApologyText)
    /\ ~isLoading

\* C8: when transcription fails, no Message is appended, recordingError is set,
\* no generation request is issued and TurnState returns to Idle.
C8_TranscriptionFailure ==
    [][(event'.op = "transcriptionDone" /\ ~event'.ok) =>
         /\ messages' = messages
         /\ recordingError' = TranscribeError
         /\ turns'[event'.id].pc = "done"
         /\ \A i \in OpIds : turns'[i].req = turns[i].req
         /\ ~isLoading'
      ]_vars

C8_Witness ==
    /\ event.op = "transcriptionDone"
    /\ ~event.ok
    /\ recordingError = TranscribeError
    /\ turns[event.id].pc = "done"
    /\ ~isLoading

\* C9: when microphone acquisition fails, the error is reported, TurnState and
\* isRecording are as before, no recorder is created or started, no stream is
\* held for the invocation and the transcript is unchanged.
C9_AcquisitionFailure ==
    [][(event'.op = "acquireDone" /\ event'.text = << "denied" >>) =>
         /\ recordingError' = MicError
         /\ turns'[event'.id].pc = "failed"
         /\ event'.id \notin streams'
         /\ UNCHANGED << isLoading, isRecording, mediaRecorderRef, streams, messages >>
      ]_vars

C9_Witness ==
    /\ event.op = "acquireDone"
    /\ event.text = << "denied" >>
    /\ recordingError = MicError
    /\ ~isLoading
    /\ ~isRecording
    /\ streams = {}

\* C10: no stream stays held by an invocation of startRecording that failed.
C10_StreamReleasedOnFailure ==
    \A i \in streams : turns[i].pc # "failed"

\* recorders that are recording
Recording == {i \in OpIds : turns[i].pc = "recording"}

\* C11: in every reachable state at most one microphone stream is held and at
\* most one recorder is recording.
C11_AtMostOneRecordingSession ==
    /\ Cardinality(streams) <= 1
    /\ Cardinality(Recording) <= 1

\* C12: the microphone stream of a recording is released before its clip is
\* transcribed: no invocation holds its stream while its transcription or its
\* completion call is outstanding.
C12_DeviceReleasedBeforeTranscription ==
    \A i \in InFlight : i \notin streams

\* ---- properties of the speech player ----

\* requests whose synthesis (fetch and body read) has not settled
Synthesizing == {r \in SpeechIds : speech[r].pc \in {"fetch", "blob"}}

\* r's synthesis has not settled and a later speak has been issued
Superseded(r) == r \in Synthesizing /\ r # abortControllerRef

\* C13: a request superseded before its synthesis settled never sets the audio
\* source, creates no audio URL and never starts playback, whatever its result
\* and whenever it arrives; audio that plays is that of the latest request.
C13_SupersededNeverPlays ==
    [][/\ \A r \in SpeechIds :
            Superseded(r) => /\ audio'.src # r
                             /\ r \notin urls'
                             /\ speech'[r].pc # "play"
       /\ audio'.state # "paused" => audio'.src = abortControllerRef'
      ]_vars

C13_Witness ==
    /\ event.op = "speechAborted"
    /\ event.id = 1
    /\ speech[1].pc = "done"
    /\ abortControllerRef = 2
    /\ audio.state = "playing"
    /\ audio.src = 2
    /\ urls = {2}

\* C14: handling the result of a cancelled synthesis request changes no state of
\* the speech player: not isSpeaking, not the audio element, not the current
\* abort handle.
C14_CancelledResultDiscarded ==
    [][event'.op = "speechAborted" =>
         UNCHANGED << isSpeaking, abortControllerRef, audio, urls >>]_vars

\* the current requests: synthesis in flight and not aborted, or audio started
Current ==
    {r \in Synthesizing : ~speech[r].aborted}
        \cup (IF audio.state # "paused" THEN {audio.src} ELSE {})

\* C15: in every reachable state at most one speak request is current, i.e. in
\* flight and not aborted, or playing.
C15_AtMostOneCurrentRequest == Cardinality(Current) <= 1

C15_Witness ==
    /\ speech[1].pc \in {"fetch", "blob"}
    /\ speech[1].aborted
    /\ Current = {2}

\* C16: the step that appends an assistant Message issues, when auto-speak is
\* enabled, exactly one speak request, with the text of that Message, which
\* becomes the only current request (requests in flight are aborted, audio is
\* paused); when auto-speak is disabled the step issues no speak request.
C16_AutoSpeakOnAppend ==
    [][event'.op \in {"generationDone", "filesChange"} =>
         IF autoSpeak
         THEN \E r \in SpeechIds :
                 /\ speech[r].pc = "none"
                 /\ speech'[r] = [pc |-> "fetch", text |-> Last(messages').text,
                                  aborted |-> FALSE]
                 /\ Last(messages').type = "assistant"
                 /\ event'.op = "generationDone" => Last(messages').text = event'.text
                 /\ \A q \in SpeechIds \ {r} :
                        \/ speech'[q] = speech[q]
                        \/ /\ q \in Synthesizing
                           /\ speech'[q] = [speech[q] EXCEPT !.aborted = TRUE]
                 /\ Current' = {r}
         ELSE UNCHANGED speechVars]_vars

C16_Witness ==
    /\ event.op = "generationDone"
    /\ autoSpeak
    /\ abortControllerRef = 2
    /\ speech[2] = [pc |-> "fetch", text |-> Last(messages).text, aborted |-> FALSE]
    /\ speech[1].aborted

\* C17: auto-speak issues at most one speak request for an appended assistant
\* Message, whatever turns, toggles and transcript updates follow.
C17_AutoSpokenAtMostOnce == autoSpoken <= 1

\* the history of the request of turn i: the transcript its handler saw
TurnHistory(i) == SubSeq(turns[i].req, 2, Len(turns[i].req) - 1)

\* the text handleSendMessage was called with in turn i
TurnText(i) == Last(turns[i].req).content

\* the transcript is the one turn i started from plus one Message: it has not
\* been replaced since
TranscriptKept(i) ==
    /\ Len(messages) = Len(TurnHistory(i)) + 1
    /\ SubSeq(ToDialogue(messages), 1, Len(TurnHistory(i))) = TurnHistory(i)

C19_AtMostOneLiveUrl == Cardinality(urls) <= 1

\* the state of the speech player
SpeechState ==
    [isSpeaking |-> isSpeaking, speech |-> speech, ref |-> abortControllerRef,
     audio |-> audio, urls |-> urls]

\* stopSpeaking(), as a function of the state of the speech player
StopSpeakingOn(s) ==
    [s EXCEPT !.audio = StopSpeakingAudio(s.audio),
              !.speech = StopSpeakingAbort(s.speech, s.ref),
              !.isSpeaking = FALSE]

C21_TurnReturnsToIdle ==
    (isLoading \/ \E i \in OpIds : turns[i].pc \in {"stopping", "transcribing", "generating"})
        ~> (~isLoading /\ InFlight = {})

C21_Witness ==
    /\ event.op = "generationDone"
    /\ ~event.ok
    /\ turns[event.id] = DoneTurn("voice", "done")
    /\ InFlight = {}
    /\ ~isLoading

\* C22: provided the generation call returns, a user Message with no assistant
\* Message after it (the transcript ends with a user Message) is eventually
\* followed by an assistant Message.
C22_UserMessageAnswered ==
    (Last(messages).type = "user") ~> (Last(messages).type = "assistant")

C22_Witness ==
    /\ event.op = "generationDone"
    /\ event.ok
    /\ Len(messages) >= 3
    /\ messages[Len(messages) - 1].type = "user"
    /\ Last(messages) = AssistantMessage(SorryText)

\* C23: in every reachable state in which no transcription call and no
\* generation call is outstanding, isLoading is false.
C23_IdleWhenNothingOutstanding == InFlight = {} => ~isLoading

C23_Witness ==
    /\ InFlight = {}
    /\ ~isLoading
    /\ turns[1].pc = "done"
    /\ turns[2].pc = "done"

\* C24: no microphone stream is left held across turns: whenever the controller
\* is Idle with no recording active and no invocation in progress, no stream
\* is held.
C24_NoStreamHeldWhenIdle == Idle => streams = {}

\* the tasks of the speech player
SpeechOps ==
    {"speechFetchDone", "speechBlobDone", "speechAborted", "speechPlayDone",
     "audioEnded", "stopSpeaking", "listen"}

\* C25: a speak request made with the Listen button, the result, failure or
\* abort of a speak request, and stopping or ending playback change neither the
\* transcript nor isLoading nor the error notice; a failed or aborted request
\* leaves the audio element as it is.
C25_SpeechSilentForTranscript ==
    [][/\ event'.op \in SpeechOps =>
            UNCHANGED << messages, isLoading, recordingError, turns >>
       /\ ( \/ event'.op = "speechAborted"
            \/ (event'.op \in {"speechFetchDone", "speechBlobDone"} /\ ~event'.ok) ) =>
            UNCHANGED << audio, urls >>
      ]_vars

C25_Witness ==
    /\ event.op = "speechFetchDone"
    /\ ~event.ok
    /\ isLoading
    /\ Last(messages).type = "user"
    /\ audio.state = "paused"

\* C26: a transcription that succeeds with a text that is empty after trimming
\* sets no error notice, appends no Message, issues no generation request and
\* ends the turn with isLoading false.
C26_EmptyTranscriptionDiscarded ==
    [][(event'.op = "transcriptionDone" /\ event'.ok /\ Trim(event'.text) = <<>>) =>
         /\ recordingError' = recordingError
         /\ messages' = messages
         /\ turns'[event'.id].pc = "done"
         /\ \A i \in OpIds : turns'[i].req = turns[i].req
         /\ ~isLoading'
      ]_vars

C26_Witness ==
    /\ event.op = "transcriptionDone"
    /\ event.ok
    /\ event.text = << " " >>
    /\ recordingError = NoError
    /\ turns[event.id] = DoneTurn("voice", "done")
    /\ Len(messages) = 1
    /\ ~isLoading

\* the position of an invocation in the order of the code: acquisition,
\* recording, stop, transcription request, generation request, end
Stage(pc) ==
    CASE pc = "none" -> 0
      [] pc = "acquiring" -> 1
      [] pc = "recording" -> 2
      [] pc = "stopping" -> 3
      [] pc = "transcribing" -> 4
      [] pc = "generating" -> 5
      [] pc \in {"done", "failed"} -> 6

\* C27: an invocation only moves forward: it issues its transcription request
\* at most once and its generation request at most once, a transcription
\* request only for a stopped recording, and when a call fails the turn ends
\* with no further request.
C27_NoRetry ==
    [][/\ \A i \in OpIds :
            turns'[i].pc # turns[i].pc =>
                /\ Stage(turns'[i].pc) > Stage(turns[i].pc)
                /\ turns'[i].pc = "transcribing" => turns[i].pc = "stopping"
                /\ turns'[i].pc = "generating" => turns[i].pc \in {"none", "transcribing"}
       /\ (event'.op \in {"transcriptionDone", "generationDone"} /\ ~event'.ok) =>
            /\ turns'[event'.id].pc = "done"
            /\ \A i \in OpIds \ {event'.id} : turns'[i] = turns[i]
      ]_vars

C27_Witness ==
    /\ event.op = "transcriptionDone"
    /\ ~event.ok
    /\ turns[event.id] = DoneTurn("voice", "done")
    /\ InFlight = {}
    /\ Len(messages) = 1

\* C28: submitText with a text that is empty after trimming changes nothing, in
\* every state: no Message, no generation request, isLoading as before.
C28_SubmitEmptyTextNoOp ==
    [][(event'.op = "submitText" /\ Trim(event'.text) = <<>>) =>
         UNCHANGED allButEvent]_vars

C28_Witness ==
    /\ event.op = "submitText"
    /\ ~event.ok
    /\ event.text = << " " >>
    /\ ~isLoading
    /\ InFlight = {}

C30_NaturalEndClearsAndFrees ==
    [][event'.op = "audioEnded" =>
         /\ audio.state = "playing"
         /\ ~isSpeaking'
         /\ Current' = {}
         /\ audio.src \in urls
         /\ audio.src \notin urls'
         /\ urls' = urls \ {audio.src}
      ]_vars

C30_Witness ==
    /\ event.op = "audioEnded"
    /\ event.id = audio.src
    /\ audio.state = "paused"
    /\ ~isSpeaking
    /\ urls = {}

\* C31: isSpeaking is true in every reachable state in which a speak request is
\* current (synthesis in flight and not aborted, or its audio started).
C31_SpeakingWhileCurrent == Current # {} => isSpeaking

\* C32: a transcription that succeeds with a text that is not empty after
\* trimming always continues the spoken turn, although transcribeAudio has set
\* isLoading: the user Message is appended and the generation request issued.
C32_VoiceTurnProceeds ==
    [][(event'.op = "transcriptionDone" /\ event'.ok /\ Trim(event'.text) # <<>>) =>
         /\ messages' = Append(messages, UserMessage(Trim(event'.text)))
         /\ turns'[event'.id].pc = "generating"
         /\ turns'[event'.id].req # NoReq
         /\ Last(turns'[event'.id].req).content = event'.text
         /\ isLoading'
      ]_vars

C32_Witness ==
    /\ event.op = "transcriptionDone"
    /\ event.ok
    /\ event.text = << " ", "a" >>
    /\ turns[event.id].kind = "voice"
    /\ turns[event.id].pc = "generating"
    /\ Last(messages) = UserMessage(<< "a" >>)
    /\ isLoading

\* C33: a recording and a response turn never overlap: in every reachable state
\* in which a recorder is recording no generation request is outstanding.
C33_NoGenerationWhileRecording ==
    Recording # {} => \A i \in OpIds : turns[i].pc # "generating"

\* C34: turns are not interleaved in the transcript: every user Message is the
\* last Message or is immediately followed by an assistant Message.
C34_TurnsNotInterleaved ==
    \A k \in 1..(Len(messages) - 1) :
        messages[k].type = "user" => messages[k + 1].type = "assistant"

\* the request that stopSpeaking cancelled while its synthesis was in flight:
\* the latest request, aborted, with no later speak issued
Stopped(r) == r = abortControllerRef /\ r \in Synthesizing /\ speech[r].aborted

\* C35: stopSpeaking cancels the in-flight synthesis request: right after it no
\* request is current and the audio is paused; the cancelled request never sets
\* the audio source, creates no URL and never starts playback; and the player
\* leaves silence only through a new speak request.
C35_StopCancelsSynthesis ==
    [][/\ event'.op = "stopSpeaking" => (Current' = {} /\ audio'.state = "paused")
       /\ \A r \in SpeechIds :
            Stopped(r) => /\ speech'[r].pc \in {speech[r].pc, "done"}
                          /\ audio'.src # r
                          /\ r \notin urls'
       /\ Current = {} => /\ audio'.state = "paused"
                          /\ Current' # {} => abortControllerRef' # abortControllerRef
      ]_vars

C35_Witness ==
    /\ event.op = "speechAborted"
    /\ event.id = abortControllerRef
    /\ speech[abortControllerRef].pc = "done"
    /\ ~isSpeaking
    /\ Current = {}
    /\ audio.state = "paused"
    /\ urls = {}

\* C36: for every turn, the utterance sent as the final user entry of the
\* generation request is identical to the text of the user Message appended
\* for that turn.
C36_UtteranceIsMessageText ==
    [][\A i \in OpIds :
         (turns[i].pc # "generating" /\ turns'[i].pc = "generating") =>
             Last(turns'[i].req).content = Last(messages').text
      ]_vars

\* C37: the clip handed to transcription consists of exactly the chunks captured
\* by that session's recorder: when onstop builds it, the buffer holds the data
\* of the stopped recorder and of no other.
C37_ClipIsOwnChunks ==
    [][event'.op = "recorderStopped" => audioChunksRef' = {event'.id}]_vars

\* C38: the middleware redirects a logged-in user who requests "/" to
\* "/dashboard".
C38_LoggedInHomeRedirected ==
    (request.isLoggedIn /\ request.pathname = << "/" >>) =>
        response = NextResponseRedirect(<< "/", "dashboard" >>)

\* C39: the middleware never lets an unauthenticated request through to a
\* protected route: a request that is not logged in and whose pathname starts
\* with "/dashboard" or "/onboard" is answered by a redirect to "/".
C39_ProtectedRoutesGuarded ==
    (/\ event.op = "request"
     /\ ~request.isLoggedIn
     /\ \/ StartsWith(request.pathname, << "/", "dashboard" >>)
        \/ StartsWith(request.pathname, << "/", "onboard" >>))
        => response = [kind |-> "redirect", to |-> << "/" >>]

C39_Witness ==
    /\ event.op = "request"
    /\ ~request.isLoggedIn
    /\ request.pathname = << "/", "onboard", "x" >>
    /\ response.kind = "redirect"
    /\ response.to = << "/" >>

====
